---- MODULE Spec2Model ----
(***************************************************************************)
(* Model of the finance calculator of src/components/App.vue: the fixed    *)
(* annuity payment, the monthly balance/payment recurrence, the bisection  *)
(* search for the starting payment of the inflation-escalated loan, and    *)
(* the chronological projection with the per-person share.                 *)
(*                                                                         *)
(* Numbers.  The program computes in IEEE doubles.  The model computes in  *)
(* fixed point: a money amount is an integer number of units, Scale units  *)
(* to 1.0, and, as every floating-point operation rounds its exact result  *)
(* to the nearest double, every multiplication and division rounds its     *)
(* exact result to the nearest unit.  Additions and subtractions of units  *)
(* are exact.  Rates are kept as the percentages the user types (integers) *)
(* and enter the arithmetic as exact ratios: interest/100/12 is            *)
(* interest/1200 and 1 + inflationRate/100 is (100 + inflationRate)/100.   *)
(* The NaN of the program and its null are two reserved values.            *)
(***************************************************************************)
EXTENDS Integers, Sequences, FiniteSets

\* ------------------------------------------------------------ bounds

\* Resolution of the fixed-point grid: units per 0.01.
UnitsPerCent == 100
\* Longest loan term, in years, of the loans drawn by Init.
MaxYears == 2

Scale == 100 * UnitsPerCent
Money(x) == x * Scale

\* ------------------------------------------------------------ program constants

\* for (let j = 0; j < 100; j++)
MaxIterations == 100
\* numYears * 12, month % 12
MonthsPerYear == 12
\* Math.abs(balance) < 0.01, in units
Tolerance == UnitsPerCent

\* return NaN
NaN == -2000000001
\* let startingMonthlyPaymentHigh = null
null == -2000000002

IsNaN(x) == x = NaN

\* ------------------------------------------------------------ state

VARIABLES
    mortgageParams,       \* reactive({principal, interest, numYears})
    personalLoanParams,   \* reactive({principal, interest, numYears, inflationRate, inflateWithMortgagePayment})
    houseParams,          \* reactive({numPeople, utilities, utilityInflation})
    pc,                   \* where the computation stands
    j,                    \* the solver's iteration counter
    startingMonthlyPaymentMid,
    startingMonthlyPaymentLow,
    startingMonthlyPaymentHigh,
    simBalance,           \* the solver's balance after its inner loop
    startingMonthlyPersonalLoanPayment,  \* the computed value, null until computed
    i,                    \* chronologicalData's month counter
    balance,              \* chronologicalData's balance
    monthlyPayment,       \* chronologicalData's monthlyPayment
    personalLoanBalance,
    personalLoanMonthlyPayment,
    individualMonthlyPayment,
    totalLoanPayment,
    probe                 \* two starting payments and their final balances

vars == <<mortgageParams, personalLoanParams, houseParams, pc, j,
          startingMonthlyPaymentMid, startingMonthlyPaymentLow,
          startingMonthlyPaymentHigh, simBalance,
          startingMonthlyPersonalLoanPayment, i, balance, monthlyPayment,
          personalLoanBalance, personalLoanMonthlyPayment,
          individualMonthlyPayment, totalLoanPayment, probe>>

solverVars == <<j, startingMonthlyPaymentMid, startingMonthlyPaymentLow,
                startingMonthlyPaymentHigh, simBalance,
                startingMonthlyPersonalLoanPayment>>

projectionVars == <<i, balance, monthlyPayment, personalLoanBalance,
                    personalLoanMonthlyPayment, individualMonthlyPayment,
                    totalLoanPayment>>

paramVars == <<mortgageParams, personalLoanParams, houseParams>>

\* ------------------------------------------------------------ arithmetic

Abs(x) == IF x < 0 THEN -x ELSE x

\* a / b rounded to the nearest unit, b > 0.
RoundDiv(a, b) == (a + (b \div 2)) \div b

\* x * (num / den) rounded to the nearest unit, den > 0.  x is split at den
\* so that no intermediate product leaves the integer range:
\* x * num / den = (x \div den) * num + (x % den) * num / den.
FMulRatio(x, num, den) == (x \div den) * num + RoundDiv((x % den) * num, den)

\* Math.pow(num / den, k) in units (Scale units to 1.0), k >= 0.
RECURSIVE FPow(_, _, _)
FPow(num, den, k) ==
    IF k = 0 THEN Scale ELSE FMulRatio(FPow(num, den, k - 1), num, den)

\* NaN is contagious in every arithmetic operation.
Add(x, y) == IF IsNaN(x) \/ IsNaN(y) THEN NaN ELSE x + y
Sub(x, y) == IF IsNaN(x) \/ IsNaN(y) THEN NaN ELSE x - y
MulRatio(x, num, den) == IF IsNaN(x) THEN NaN ELSE FMulRatio(x, num, den)
DivInt(x, n) == IF IsNaN(x) THEN NaN ELSE RoundDiv(x, n)

\* ------------------------------------------------------------ pure functions

monthlyLoanPayment(principal, interest, numYears) ==
    IF interest <= 0
    THEN RoundDiv(principal, numYears * MonthsPerYear)
    ELSE LET numberOfPayments == numYears * MonthsPerYear
             \* Math.pow(1 + monthlyInterestRate, -numberOfPayments)
             growth == FPow(1200 + interest, 1200, numberOfPayments)
             discount == RoundDiv(Scale * Scale, growth)
         IN  FMulRatio(FMulRatio(principal, interest, 1200), Scale, Scale - discount)

monthlyMortgagePayment ==
    monthlyLoanPayment(mortgageParams.principal, mortgageParams.interest,
                       mortgageParams.numYears)

\* escalatedPayment with the coupling forgotten: the loan payment alone is
\* inflated, whatever inflateWithMortgagePayment says.
escalatedPayment_IgnoresCoupling(payment) ==
    MulRatio(payment, 100 + personalLoanParams.inflationRate, 100)

\* The payment after the escalation of a year boundary.
escalatedPayment(payment) ==
    LET coupled == IF personalLoanParams.inflateWithMortgagePayment
                   THEN Add(payment, monthlyMortgagePayment) ELSE payment
        inflated == MulRatio(coupled, 100 + personalLoanParams.inflationRate, 100)
    IN  IF personalLoanParams.inflateWithMortgagePayment
        THEN Sub(inflated, monthlyMortgagePayment) ELSE inflated

\* oneMonthBalanceAndPaymentUpdate with the payment added to the balance
\* (balance += monthlyPayment).
oneMonthBalanceAndPaymentUpdate_AddsPayment(bal, payment, month) ==
    LET accrued == MulRatio(bal, 1200 + personalLoanParams.interest, 1200)
        newPayment == IF month # 0 /\ month % MonthsPerYear = 0
                      THEN escalatedPayment(payment) ELSE payment
    IN  <<Add(accrued, newPayment), newPayment>>

\* oneMonthBalanceAndPaymentUpdate without the test of month 0
\* (if (month % 12 === 0)).
oneMonthBalanceAndPaymentUpdate_EscalatesAtMonthZero(bal, payment, month) ==
    LET accrued == MulRatio(bal, 1200 + personalLoanParams.interest, 1200)
        newPayment == IF month % MonthsPerYear = 0
                      THEN escalatedPayment(payment) ELSE payment
    IN  <<Sub(accrued, newPayment), newPayment>>

\* Returns <<balance, monthlyPayment>>.
oneMonthBalanceAndPaymentUpdate(bal, payment, month) ==
    LET accrued == MulRatio(bal, 1200 + personalLoanParams.interest, 1200)
        newPayment == IF month # 0 /\ month % MonthsPerYear = 0
                      THEN escalatedPayment(payment) ELSE payment
    IN  <<Sub(accrued, newPayment), newPayment>>

\* The solver's inner loop from the state st = <<balance, monthlyPayment, i>>:
\* the balance after the months i..numYears*12-1.
RECURSIVE fullTermLoop(_)
fullTermLoop(st) ==
    IF st[3] >= personalLoanParams.numYears * MonthsPerYear
    THEN st[1]
    ELSE LET s == oneMonthBalanceAndPaymentUpdate(st[1], st[2], st[3])
         IN  fullTermLoop(<<s[1], s[2], st[3] + 1>>)

fullTermBalance(principal, startingPayment) ==
    fullTermLoop(<<principal, startingPayment, 0>>)

\* loanToIndividualMonthlyPayment with the year rounded up (Math.ceil).
loanToIndividualMonthlyPayment_YearRoundedUp(personalLoanMonthlyPaymentNow, month) ==
    LET year == (month + MonthsPerYear - 1) \div MonthsPerYear
        utilitiesNow == FMulRatio(houseParams.utilities,
                                  FPow(100 + houseParams.utilityInflation, 100, year),
                                  Scale)
        totalMonthlyPayment ==
            Add(Add(personalLoanMonthlyPaymentNow, utilitiesNow), monthlyMortgagePayment)
    IN  DivInt(totalMonthlyPayment, houseParams.numPeople)

loanToIndividualMonthlyPayment(personalLoanMonthlyPaymentNow, month) ==
    LET year == month \div MonthsPerYear
        utilitiesNow == FMulRatio(houseParams.utilities,
                                  FPow(100 + houseParams.utilityInflation, 100, year),
                                  Scale)
        totalMonthlyPayment ==
            Add(Add(personalLoanMonthlyPaymentNow, utilitiesNow), monthlyMortgagePayment)
    IN  DivInt(totalMonthlyPayment, houseParams.numPeople)

\* ------------------------------------------------------------ inputs

Principals == {Money(10), Money(100)}
Rates == {-12, 0, 12}
Years == 1..MaxYears
Inflations == {-100, 0, 2, 100}
MortgagePrincipals == {Money(1200)}
MortgageRates == {0, 12}
NumPeoples == {1, 3}
UtilitiesSet == {Money(2)}
UtilityInflations == {0, 50}

MortgageInputs ==
    [principal : MortgagePrincipals, interest : MortgageRates, numYears : Years]
PersonalLoanInputs ==
    [principal : Principals, interest : Rates, numYears : Years,
     inflationRate : Inflations, inflateWithMortgagePayment : BOOLEAN]
HouseInputs ==
    [numPeople : NumPeoples, utilities : UtilitiesSet,
     utilityInflation : UtilityInflations]

NoProbe == [p1 |-> 0, p2 |-> 0, b1 |-> 0, b2 |-> 0]

\* ------------------------------------------------------------ the solver

Init ==
    /\ mortgageParams \in MortgageInputs
    /\ personalLoanParams \in PersonalLoanInputs
    /\ houseParams \in HouseInputs
    /\ pc = "solve"
    /\ j = 0
    /\ startingMonthlyPaymentMid =
           monthlyLoanPayment(personalLoanParams.principal,
                              personalLoanParams.interest,
                              personalLoanParams.numYears)
    /\ startingMonthlyPaymentLow = 0
    /\ startingMonthlyPaymentHigh = null
    /\ simBalance = personalLoanParams.principal
    /\ startingMonthlyPersonalLoanPayment = null
    /\ i = 0
    /\ balance = 0
    /\ monthlyPayment = 0
    /\ personalLoanBalance = <<>>
    /\ personalLoanMonthlyPayment = <<>>
    /\ individualMonthlyPayment = <<>>
    /\ totalLoanPayment = 0
    /\ probe = NoProbe

\* withinTolerance without Math.abs (balance < 0.01).
withinTolerance_NoAbs(bal) == bal < Tolerance

withinTolerance(bal) == Abs(bal) < Tolerance

\* One pass of the inner loop: the whole term from the candidate payment.
SolveSimulate ==
    /\ pc = "solve"
    /\ j < MaxIterations
    /\ simBalance' = fullTermBalance(personalLoanParams.principal,
                                     startingMonthlyPaymentMid)
    /\ pc' = "check"
    /\ UNCHANGED <<j, startingMonthlyPaymentMid, startingMonthlyPaymentLow,
                   startingMonthlyPaymentHigh, startingMonthlyPersonalLoanPayment>>
    /\ UNCHANGED <<paramVars, projectionVars, probe>>

\* if (Math.abs(balance) < 0.01) return startingMonthlyPaymentMid
SolveConverged ==
    /\ pc = "check"
    /\ withinTolerance(simBalance)
    /\ startingMonthlyPersonalLoanPayment' = startingMonthlyPaymentMid
    /\ pc' = "project"
    /\ UNCHANGED <<j, startingMonthlyPaymentMid, startingMonthlyPaymentLow,
                   startingMonthlyPaymentHigh, simBalance>>
    /\ UNCHANGED <<paramVars, projectionVars, probe>>

\* balance > 0 and no upper bound yet: double the candidate
SolveUnderpaidUnbounded ==
    /\ pc = "check"
    /\ ~withinTolerance(simBalance)
    /\ simBalance > 0
    /\ startingMonthlyPaymentHigh = null
    /\ startingMonthlyPaymentLow' = startingMonthlyPaymentMid
    /\ startingMonthlyPaymentMid' = startingMonthlyPaymentMid * 2
    /\ j' = j + 1
    /\ pc' = "solve"
    /\ UNCHANGED <<startingMonthlyPaymentHigh, simBalance,
                   startingMonthlyPersonalLoanPayment>>
    /\ UNCHANGED <<paramVars, projectionVars, probe>>

\* SolveUnderpaidBounded doubling the candidate although an upper bound is set.
SolveUnderpaidBounded_Doubles ==
    /\ pc = "check"
    /\ ~withinTolerance(simBalance)
    /\ simBalance > 0
    /\ startingMonthlyPaymentHigh # null
    /\ startingMonthlyPaymentLow' = startingMonthlyPaymentMid
    /\ startingMonthlyPaymentMid' = startingMonthlyPaymentMid * 2
    /\ j' = j + 1
    /\ pc' = "solve"
    /\ UNCHANGED <<startingMonthlyPaymentHigh, simBalance,
                   startingMonthlyPersonalLoanPayment>>
    /\ UNCHANGED <<paramVars, projectionVars, probe>>

\* balance > 0 and an upper bound: go half way up to it
SolveUnderpaidBounded ==
    /\ pc = "check"
    /\ ~withinTolerance(simBalance)
    /\ simBalance > 0
    /\ startingMonthlyPaymentHigh # null
    /\ startingMonthlyPaymentLow' = startingMonthlyPaymentMid
    /\ startingMonthlyPaymentMid' =
           RoundDiv(startingMonthlyPaymentMid + startingMonthlyPaymentHigh, 2)
    /\ j' = j + 1
    /\ pc' = "solve"
    /\ UNCHANGED <<startingMonthlyPaymentHigh, simBalance,
                   startingMonthlyPersonalLoanPayment>>
    /\ UNCHANGED <<paramVars, projectionVars, probe>>

\* else: the candidate becomes the upper bound, go half way down to low
SolveOverpaid ==
    /\ pc = "check"
    /\ ~withinTolerance(simBalance)
    /\ ~(simBalance > 0)
    /\ startingMonthlyPaymentHigh' = startingMonthlyPaymentMid
    /\ startingMonthlyPaymentMid' =
           RoundDiv(startingMonthlyPaymentMid + startingMonthlyPaymentLow, 2)
    /\ j' = j + 1
    /\ pc' = "solve"
    /\ UNCHANGED <<startingMonthlyPaymentLow, simBalance,
                   startingMonthlyPersonalLoanPayment>>
    /\ UNCHANGED <<paramVars, projectionVars, probe>>

\* SolveExhausted returning the last candidate instead of NaN.
SolveExhausted_ReturnsLastCandidate ==
    /\ pc = "solve"
    /\ j >= MaxIterations
    /\ startingMonthlyPersonalLoanPayment' = startingMonthlyPaymentMid
    /\ pc' = "project"
    /\ UNCHANGED <<j, startingMonthlyPaymentMid, startingMonthlyPaymentLow,
                   startingMonthlyPaymentHigh, simBalance>>
    /\ UNCHANGED <<paramVars, projectionVars, probe>>

\* the loop ran out: return NaN
SolveExhausted ==
    /\ pc = "solve"
    /\ j >= MaxIterations
    /\ startingMonthlyPersonalLoanPayment' = NaN
    /\ pc' = "project"
    /\ UNCHANGED <<j, startingMonthlyPaymentMid, startingMonthlyPaymentLow,
                   startingMonthlyPaymentHigh, simBalance>>
    /\ UNCHANGED <<paramVars, projectionVars, probe>>

\* ------------------------------------------------------------ the projection

ProjectBegin ==
    /\ pc = "project"
    /\ personalLoanBalance' = <<>>
    /\ personalLoanMonthlyPayment' = <<>>
    /\ individualMonthlyPayment' = <<>>
    /\ totalLoanPayment' = 0
    /\ balance' = personalLoanParams.principal
    /\ monthlyPayment' = startingMonthlyPersonalLoanPayment
    /\ i' = 0
    /\ pc' = "loop"
    /\ UNCHANGED <<paramVars, solverVars, probe>>

\* ProjectStep putting each point in front of the series (unshift for push).
ProjectStep_Prepends ==
    /\ pc = "loop"
    /\ i < personalLoanParams.numYears * MonthsPerYear
    /\ LET s == oneMonthBalanceAndPaymentUpdate(balance, monthlyPayment, i)
       IN  /\ balance' = s[1]
           /\ monthlyPayment' = s[2]
           /\ personalLoanBalance' = <<s[1]>> \o personalLoanBalance
           /\ personalLoanMonthlyPayment' = <<s[2]>> \o personalLoanMonthlyPayment
           /\ individualMonthlyPayment' =
                  <<loanToIndividualMonthlyPayment(s[2], i)>> \o individualMonthlyPayment
           /\ totalLoanPayment' = Add(totalLoanPayment, s[2])
    /\ i' = i + 1
    /\ UNCHANGED pc
    /\ UNCHANGED <<paramVars, solverVars, probe>>

\* ProjectStep adding the payment of before the update to the total.
ProjectStep_TotalsBeforeUpdate ==
    /\ pc = "loop"
    /\ i < personalLoanParams.numYears * MonthsPerYear
    /\ LET s == oneMonthBalanceAndPaymentUpdate(balance, monthlyPayment, i)
       IN  /\ balance' = s[1]
           /\ monthlyPayment' = s[2]
           /\ personalLoanBalance' = Append(personalLoanBalance, s[1])
           /\ personalLoanMonthlyPayment' = Append(personalLoanMonthlyPayment, s[2])
           /\ individualMonthlyPayment' =
                  Append(individualMonthlyPayment,
                         loanToIndividualMonthlyPayment(s[2], i))
           /\ totalLoanPayment' = Add(totalLoanPayment, monthlyPayment)
    /\ i' = i + 1
    /\ UNCHANGED pc
    /\ UNCHANGED <<paramVars, solverVars, probe>>

ProjectStep ==
    /\ pc = "loop"
    /\ i < personalLoanParams.numYears * MonthsPerYear
    /\ LET s == oneMonthBalanceAndPaymentUpdate(balance, monthlyPayment, i)
       IN  /\ balance' = s[1]
           /\ monthlyPayment' = s[2]
           /\ personalLoanBalance' = Append(personalLoanBalance, s[1])
           /\ personalLoanMonthlyPayment' = Append(personalLoanMonthlyPayment, s[2])
           /\ individualMonthlyPayment' =
                  Append(individualMonthlyPayment,
                         loanToIndividualMonthlyPayment(s[2], i))
           /\ totalLoanPayment' = Add(totalLoanPayment, s[2])
    /\ i' = i + 1
    /\ UNCHANGED pc
    /\ UNCHANGED <<paramVars, solverVars, probe>>

ProjectReturn ==
    /\ pc = "loop"
    /\ i >= personalLoanParams.numYears * MonthsPerYear
    /\ pc' = "done"
    /\ UNCHANGED <<paramVars, solverVars, projectionVars, probe>>

Next ==
    \/ SolveSimulate
    \/ SolveConverged
    \/ SolveUnderpaidUnbounded
    \/ SolveUnderpaidBounded
    \/ SolveOverpaid
    \/ SolveExhausted
    \/ ProjectBegin
    \/ ProjectStep
    \/ ProjectReturn

Spec == Init /\ [][Next]_vars

\* ------------------------------------------------------------ the full term as a function of the starting payment

\* Loans for the simulation alone (no search runs on them): they include a
\* monthly growth factor 1 + interest/1200 below zero and an escalation
\* factor 1 + inflationRate/100 below zero.
SimPrincipals == {Money(10)}
SimRates == {-2700, 0, 12}
SimInflations == {-300, -100, 0, 100}
ProbePayments == {-Money(1), 0, Money(1), Money(3)}

SimLoanInputs ==
    [principal : SimPrincipals, interest : SimRates, numYears : Years,
     inflationRate : SimInflations, inflateWithMortgagePayment : BOOLEAN]

SimInit ==
    /\ mortgageParams \in MortgageInputs
    /\ personalLoanParams \in SimLoanInputs
    /\ houseParams = [numPeople |-> 1, utilities |-> 0, utilityInflation |-> 0]
    /\ pc = "probe"
    /\ probe \in {r \in [p1 : ProbePayments, p2 : ProbePayments, b1 : {0}, b2 : {0}] :
                      r.p1 < r.p2}
    /\ j = 0
    /\ startingMonthlyPaymentMid = 0
    /\ startingMonthlyPaymentLow = 0
    /\ startingMonthlyPaymentHigh = null
    /\ simBalance = 0
    /\ startingMonthlyPersonalLoanPayment = null
    /\ i = 0
    /\ balance = 0
    /\ monthlyPayment = 0
    /\ personalLoanBalance = <<>>
    /\ personalLoanMonthlyPayment = <<>>
    /\ individualMonthlyPayment = <<>>
    /\ totalLoanPayment = 0

\* The inner loop of the solver, run from each of the two starting payments.
ProbeSimulate ==
    /\ pc = "probe"
    /\ probe' = [probe EXCEPT
                    !.b1 = fullTermBalance(personalLoanParams.principal, probe.p1),
                    !.b2 = fullTermBalance(personalLoanParams.principal, probe.p2)]
    /\ pc' = "probed"
    /\ UNCHANGED <<paramVars, solverVars, projectionVars>>

SimNext == ProbeSimulate

SpecSim == SimInit /\ [][SimNext]_vars

monthlyFactorNonNegative == 1200 + personalLoanParams.interest >= 0
escalationFactorNonNegative == 100 + personalLoanParams.inflationRate >= 0

\* C2 (as stated): for any loan terms, inflation policy and mortgage payment
\* and any two starting payments p1 < p2, the balance at the end of the full
\* term from p1 is at least the balance from p2.
C2_MonotoneAnyPolicy ==
    pc = "probed" => probe.b1 >= probe.b2

\* C2 (amended): the same, for the loans whose monthly growth factor
\* 1 + interest/1200 and whose escalation factor 1 + inflationRate/100 are
\* both non-negative.
C2_MonotoneNonNegativeFactors ==
    (pc = "probed" /\ monthlyFactorNonNegative /\ escalationFactorNonNegative)
        => probe.b1 >= probe.b2

\* C2 witness: a coupled two-year loan with non-negative factors whose two
\* simulations ended apart.
C2_Witness ==
    /\ pc = "probed"
    /\ monthlyFactorNonNegative /\ escalationFactorNonNegative
    /\ personalLoanParams.numYears >= 2
    /\ personalLoanParams.inflateWithMortgagePayment
    /\ personalLoanParams.inflationRate = 100
    /\ probe.p1 < probe.p2
    /\ probe.b1 > probe.b2

\* ------------------------------------------------------------ properties of the solver and the projection

numberOfMonths == personalLoanParams.numYears * MonthsPerYear
solved == startingMonthlyPersonalLoanPayment # null
projecting == pc \in {"loop", "done"}

\* The recurrence state the projection advanced to record entry k.
balanceBefore(k) ==
    IF k = 1 THEN personalLoanParams.principal ELSE personalLoanBalance[k - 1]
paymentBefore(k) ==
    IF k = 1 THEN startingMonthlyPersonalLoanPayment
    ELSE personalLoanMonthlyPayment[k - 1]
yearBoundary(month) == month # 0 /\ month % MonthsPerYear = 0

\* C1 (as stated): for every valid input the projection from the solved
\* starting payment ends with a balance within 0.01 of zero.
C1_AlwaysAmortized ==
    pc = "done" =>
        /\ ~IsNaN(personalLoanBalance[numberOfMonths])
        /\ Abs(personalLoanBalance[numberOfMonths]) < Tolerance

\* C1 (amended): for every valid input for which the solver returns a payment
\* (not NaN), the projection from that payment ends with a balance within
\* 0.01 of zero.
C1_AmortizedWhenSolved ==
    (pc = "done" /\ ~IsNaN(startingMonthlyPersonalLoanPayment)) =>
        /\ ~IsNaN(personalLoanBalance[numberOfMonths])
        /\ Abs(personalLoanBalance[numberOfMonths]) < Tolerance

\* C1 witness: a coupled two-year projection, finished, from a payment the
\* search found after bisecting.
C1_Witness ==
    /\ pc = "done"
    /\ ~IsNaN(startingMonthlyPersonalLoanPayment)
    /\ j >= 3
    /\ personalLoanParams.numYears >= 2
    /\ personalLoanParams.inflateWithMortgagePayment
    /\ personalLoanParams.inflationRate # 0
    /\ Abs(personalLoanBalance[numberOfMonths]) < Tolerance

\* C3: with coupling on, at every year boundary the new loan payment plus the
\* mortgage payment is the previous loan payment plus the mortgage payment
\* times 1 + inflationRate/100 (to the nearest unit), and the mortgage
\* terms, hence the mortgage payment computed from them, never change.
C3_CoupledSumInflates ==
    /\ [](projecting /\ personalLoanParams.inflateWithMortgagePayment =>
            \A k \in 1..Len(personalLoanMonthlyPayment) :
                (yearBoundary(k - 1) /\ ~IsNaN(paymentBefore(k))) =>
                    Abs(100 * (personalLoanMonthlyPayment[k] + monthlyMortgagePayment)
                        - (100 + personalLoanParams.inflationRate)
                          * (paymentBefore(k) + monthlyMortgagePayment)) <= 50)
    /\ [][mortgageParams' = mortgageParams]_vars

\* C3 witness: a coupled projection past a year boundary where the sum grew.
C3_Witness ==
    /\ pc = "done"
    /\ personalLoanParams.inflateWithMortgagePayment
    /\ personalLoanParams.inflationRate = 2
    /\ personalLoanParams.numYears >= 2
    /\ ~IsNaN(startingMonthlyPersonalLoanPayment)
    /\ monthlyMortgagePayment > 0
    /\ personalLoanMonthlyPayment[13] > personalLoanMonthlyPayment[12]

\* C4: the payment recorded for month 0 is the starting payment, the payment
\* stays the same from each month to the next except at the months m > 0
\* with m mod 12 = 0, and at those months it is escalated (it changes
\* whenever the inflation of the escalated amount is a unit or more).
C4_EscalationOnlyAtYearBoundaries ==
    projecting =>
        \A k \in 1..Len(personalLoanMonthlyPayment) :
            IF yearBoundary(k - 1)
            THEN (/\ ~IsNaN(paymentBefore(k))
                  /\ Abs((paymentBefore(k)
                          + (IF personalLoanParams.inflateWithMortgagePayment
                             THEN monthlyMortgagePayment ELSE 0))
                         * personalLoanParams.inflationRate) >= 100)
                 => personalLoanMonthlyPayment[k] # paymentBefore(k)
            ELSE personalLoanMonthlyPayment[k] = paymentBefore(k)

\* C4 witness: a finished two-year projection whose payment is the starting
\* payment for the first twelve months and another one for the next twelve.
C4_Witness ==
    /\ pc = "done"
    /\ personalLoanParams.numYears >= 2
    /\ ~IsNaN(startingMonthlyPersonalLoanPayment)
    /\ personalLoanMonthlyPayment[1] = startingMonthlyPersonalLoanPayment
    /\ personalLoanMonthlyPayment[12] = startingMonthlyPersonalLoanPayment
    /\ personalLoanMonthlyPayment[13] # startingMonthlyPersonalLoanPayment
    /\ personalLoanMonthlyPayment[24] = personalLoanMonthlyPayment[13]

\* C5: the solver simulates only while j < 100 and every step it takes either
\* returns or starts the next iteration, so it ends after at most 100
\* simulations; the number it returns is the candidate whose simulation ended
\* within the tolerance, and it returns NaN exactly when 100 simulations
\* ended outside the tolerance.
C5_SolverResult ==
    /\ [](/\ j \in 0..MaxIterations
          /\ pc = "check" => j < MaxIterations
          /\ pc \in {"solve", "check"} => ~solved
          /\ solved =>
                 IF IsNaN(startingMonthlyPersonalLoanPayment)
                 THEN j = MaxIterations /\ Abs(simBalance) >= Tolerance
                 ELSE /\ j < MaxIterations
                      /\ startingMonthlyPersonalLoanPayment = startingMonthlyPaymentMid
                      /\ Abs(simBalance) < Tolerance
                      /\ simBalance =
                             fullTermBalance(personalLoanParams.principal,
                                             startingMonthlyPersonalLoanPayment))
    /\ [][/\ pc = "solve" =>
                \/ j < MaxIterations /\ pc' = "check" /\ j' = j /\ ~solved'
                \/ j = MaxIterations /\ solved'
          /\ pc = "check" =>
                \/ solved' /\ j' = j
                \/ ~solved' /\ pc' = "solve" /\ j' = j + 1
                   /\ Abs(simBalance) >= Tolerance]_vars

\* C5 witness: the solver returned NaN after 100 simulations.
C5_Witness ==
    /\ solved
    /\ IsNaN(startingMonthlyPersonalLoanPayment)
    /\ j = MaxIterations
    /\ Abs(simBalance) >= Tolerance

\* C6: the three series grow together, one entry per month in the order
\* 0, 1, ..., they hold numYears * 12 entries when the projection returns, and
\* entry k is the monthly update of month k - 1 applied to entry k - 1 (the
\* first one to the principal and the solved starting payment).
C6_SeriesChronological ==
    projecting =>
        /\ Len(personalLoanBalance) = i
        /\ Len(personalLoanMonthlyPayment) = i
        /\ Len(individualMonthlyPayment) = i
        /\ i <= numberOfMonths
        /\ pc = "done" => i = numberOfMonths
        /\ \A k \in 1..i :
               <<personalLoanBalance[k], personalLoanMonthlyPayment[k]>> =
                   oneMonthBalanceAndPaymentUpdate(balanceBefore(k), paymentBefore(k), k - 1)
        /\ i > 0 => /\ balance = personalLoanBalance[i]
                    /\ monthlyPayment = personalLoanMonthlyPayment[i]

\* C6 witness: a finished three-series projection of a two-year loan whose
\* balance went down month after month.
C6_Witness ==
    /\ pc = "done"
    /\ personalLoanParams.numYears = 2
    /\ Len(personalLoanBalance) = 24
    /\ ~IsNaN(startingMonthlyPersonalLoanPayment)
    /\ personalLoanParams.inflationRate = 2
    /\ \A k \in 2..24 : personalLoanBalance[k] < personalLoanBalance[k - 1]

\* The sum of the first k recorded payments.
RECURSIVE paymentsUpTo(_)
paymentsUpTo(k) ==
    IF k = 0 THEN 0 ELSE paymentsUpTo(k - 1) + personalLoanMonthlyPayment[k]

\* C7: after every step of the projection loop, and when it returns,
\* totalLoanPayment is the sum of the payments recorded so far (NaN when a
\* recorded payment is NaN).
C7_TotalIsSumOfPayments ==
    projecting =>
        IF \E k \in 1..Len(personalLoanMonthlyPayment) :
               IsNaN(personalLoanMonthlyPayment[k])
        THEN IsNaN(totalLoanPayment)
        ELSE totalLoanPayment = paymentsUpTo(Len(personalLoanMonthlyPayment))

\* C7 witness: a finished projection whose payments are not all the same and
\* whose total is a number.
C7_Witness ==
    /\ pc = "done"
    /\ personalLoanParams.numYears >= 2
    /\ ~IsNaN(totalLoanPayment)
    /\ totalLoanPayment > 0
    /\ personalLoanMonthlyPayment[13] # personalLoanMonthlyPayment[1]

\* C8 (as stated): a loan whose annual rate is zero or negative has the fixed
\* payment principal / (numYears * 12) and accrues no interest in the monthly
\* update: each month the balance goes down by the payment and nothing else.
C8_NoInterestAtOrBelowZero ==
    personalLoanParams.interest <= 0 =>
        /\ (pc = "solve" /\ j = 0) =>
               Abs(startingMonthlyPaymentMid * numberOfMonths
                   - personalLoanParams.principal) * 2 <= numberOfMonths
        /\ projecting =>
               \A k \in 1..Len(personalLoanBalance) :
                   ~IsNaN(personalLoanBalance[k]) =>
                       personalLoanBalance[k] =
                           balanceBefore(k) - personalLoanMonthlyPayment[k]

\* 100^y and (100 + utilityInflation)^y, exactly.
RECURSIVE IntPow(_, _)
IntPow(b, y) == IF y = 0 THEN 1 ELSE b * IntPow(b, y - 1)

\* C9: the share recorded for month k - 1 is the payment recorded for that
\* month plus the utilities inflated from their base value by
\* (1 + utilityInflation/100)^floor((k-1)/12) plus the mortgage payment,
\* divided by numPeople (the power within a unit per year, the division to the
\* nearest unit).
C9_ShareOfRecordedPayment ==
    projecting =>
        \A k \in 1..Len(individualMonthlyPayment) :
            IF IsNaN(personalLoanMonthlyPayment[k])
            THEN IsNaN(individualMonthlyPayment[k])
            ELSE LET y == (k - 1) \div MonthsPerYear
                     utilitiesPart ==
                         houseParams.numPeople * individualMonthlyPayment[k]
                         - personalLoanMonthlyPayment[k] - monthlyMortgagePayment
                 IN  Abs(2 * IntPow(100, y) * utilitiesPart
                         - 2 * houseParams.utilities
                             * IntPow(100 + houseParams.utilityInflation, y))
                         <= IntPow(100, y) * (houseParams.numPeople + 2 * y)

\* C9 witness: three people, utilities inflating, and a share that moved at
\* the year boundary together with the payment.
C9_Witness ==
    /\ pc = "done"
    /\ personalLoanParams.numYears >= 2
    /\ houseParams.numPeople = 3
    /\ houseParams.utilityInflation = 50
    /\ ~IsNaN(startingMonthlyPersonalLoanPayment)
    /\ personalLoanMonthlyPayment[13] # personalLoanMonthlyPayment[12]
    /\ individualMonthlyPayment[13] # individualMonthlyPayment[12]

\* m is a midpoint of a and b, to the nearest unit.
isMidpoint(m, a, b) == Abs(2 * m - (a + b)) <= 1

\* C10: low starts at 0 and never decreases; the upper bound, once set, stays
\* set and never increases; while it is unset an under-paid simulation
\* doubles the candidate; once it is set the new candidate is the midpoint of
\* the previous candidate and a bound; and low <= candidate (<= high, once
\* set) at the start of every iteration.
C10_Bracket ==
    /\ [](/\ startingMonthlyPaymentLow >= 0
          /\ pc \in {"solve", "check"} =>
                /\ startingMonthlyPaymentLow <= startingMonthlyPaymentMid
                /\ startingMonthlyPaymentHigh # null =>
                       startingMonthlyPaymentMid <= startingMonthlyPaymentHigh
          /\ (pc = "solve" /\ j = 0) =>
                startingMonthlyPaymentLow = 0 /\ startingMonthlyPaymentHigh = null)
    /\ [][/\ startingMonthlyPaymentLow' >= startingMonthlyPaymentLow
          /\ startingMonthlyPaymentHigh # null =>
                /\ startingMonthlyPaymentHigh' # null
                /\ startingMonthlyPaymentHigh' <= startingMonthlyPaymentHigh
          /\ (j' = j + 1 /\ startingMonthlyPaymentHigh' = null) =>
                /\ simBalance > 0
                /\ startingMonthlyPaymentMid' = 2 * startingMonthlyPaymentMid
                /\ startingMonthlyPaymentLow' = startingMonthlyPaymentMid
          /\ (j' = j + 1 /\ startingMonthlyPaymentHigh' # null) =>
                \/ /\ simBalance > 0
                   /\ startingMonthlyPaymentLow' = startingMonthlyPaymentMid
                   /\ startingMonthlyPaymentHigh' = startingMonthlyPaymentHigh
                   /\ isMidpoint(startingMonthlyPaymentMid',
                                 startingMonthlyPaymentMid, startingMonthlyPaymentHigh)
                \/ /\ simBalance <= 0
                   /\ startingMonthlyPaymentHigh' = startingMonthlyPaymentMid
                   /\ startingMonthlyPaymentLow' = startingMonthlyPaymentLow
                   /\ isMidpoint(startingMonthlyPaymentMid',
                                 startingMonthlyPaymentMid, startingMonthlyPaymentLow)
          /\ j' = j => /\ startingMonthlyPaymentMid' = startingMonthlyPaymentMid
                       /\ startingMonthlyPaymentLow' = startingMonthlyPaymentLow
                       /\ startingMonthlyPaymentHigh' = startingMonthlyPaymentHigh]_vars

\* C10 witness: an iteration starting strictly inside a bracket that was
\* opened by doubling and then narrowed from both sides.
C10_Witness ==
    /\ pc = "solve"
    /\ j >= 3
    /\ startingMonthlyPaymentHigh # null
    /\ 0 < startingMonthlyPaymentLow
    /\ startingMonthlyPaymentLow < startingMonthlyPaymentMid
    /\ startingMonthlyPaymentMid < startingMonthlyPaymentHigh

====
